---- MODULE Spec2Model ----
(***************************************************************************)
(* The spam-classifier proxy: src/app.py (the deployed service),           *)
(* src/testing_api.py (its variant) and src/backend_inference_api.py (the  *)
(* same service over the Inference API).  The model follows the handlers   *)
(* line by line: every statement that reads or writes the module globals   *)
(* _client / _client_init_time, every upstream call and every sleep is a   *)
(* step of the worker that executes it.                                    *)
(*                                                                         *)
(* Time.  The code reads the clock only as time.time() - _client_init_time *)
(* (app.py:37, testing_api.py:33), so the timestamp is kept as its age     *)
(* init_age = time.time() - _client_init_time, in seconds.  Writing the    *)
(* timestamp (app.py:54) sets the age to 0, the passing of d seconds adds  *)
(* d to it.  Ages beyond the freshness window are indistinguishable to the *)
(* code and are kept as one value (window + 5).  The per-request flag      *)
(* stamped records whether the request wrote the timestamp.                *)
(***************************************************************************)
EXTENDS Integers, Sequences, FiniteSets, TLC

VARIABLES
    variant,     \* "app" (src/app.py), "testing" (src/testing_api.py) or
                 \* "backend" (src/backend_inference_api.py)
    live,        \* the workers that serve requests (gunicorn.conf.py: workers)
    _client,     \* the module global _client: None or a handle
    init_age,    \* age of the module global _client_init_time, NoStamp when None
    probe,       \* per handle: result of the probe made on it by get_client
    frame        \* per worker: the locals of the request it is handling

vars == <<variant, live, _client, init_age, probe, frame>>

(***************************************************************************)
(* Values                                                                  *)
(***************************************************************************)
None == "None"
NoStamp == -1
Workers == {"w1", "w2", "w3", "w4"}
\* Handle objects.  A handle that neither the slot nor a local refers to is
\* garbage and its identity is reused by a later Client(...) call.
Handles == {"h1", "h2", "h3", "h4", "h5"}

AppWindow == 300
TestingWindow == 600
FreshWindow == IF variant = "app" THEN AppWindow ELSE TestingWindow

\* Length of the raw request texts that are enumerated.
MaxTextLen == 2
\* Length of the lists given to /classify/batch.
MaxBatch == 2

Min(a, b) == IF a < b THEN a ELSE b
Max(a, b) == IF a > b THEN a ELSE b

\* Age of a timestamp after d more seconds.
Older(a, d) == IF a = NoStamp THEN NoStamp ELSE Min(a + d, FreshWindow + 5)

\* Python truthiness of _client_init_time: None is falsy (a float timestamp
\* of the running system is never 0.0).
Truthy(a) == a # NoStamp

(***************************************************************************)
(* Texts: a str is a sequence of characters; str.strip() removes leading   *)
(* and trailing whitespace.                                                *)
(***************************************************************************)
Chars == {" ", "a"}
IsSpace(c) == c = " "

RECURSIVE LStrip(_)
LStrip(s) == IF s # <<>> /\ IsSpace(Head(s)) THEN LStrip(Tail(s)) ELSE s

RECURSIVE RStrip(_)
RStrip(s) == IF s # <<>> /\ IsSpace(s[Len(s)])
             THEN RStrip(SubSeq(s, 1, Len(s) - 1)) ELSE s

Strip(s) == RStrip(LStrip(s))

SeqsUpTo(S, n) == UNION {[1..k -> S] : k \in 0..n}
RawTexts == SeqsUpTo(Chars, MaxTextLen)

(***************************************************************************)
(* Upstream replies.  Scores are fixed-point numbers in units of 10^-5, so *)
(* that round(x, 4) is not the identity.  A reply is a record              *)
(*   shape "confidences": a dict with key 'confidences', items its list    *)
(*   shape "label": a dict with key 'label' (and no 'confidences');        *)
(*                  confidence = NoConf when the key is absent             *)
(*   shape "pair":  a tuple/list of length > 1 whose second element is a   *)
(*                  dict, items its key/value entries                      *)
(*   shape "short": a tuple/list of length <= 1                            *)
(*   shape "broken": a dict or tuple/list of a recognised shape whose      *)
(*                  content makes the parse raise ('confidences': None,    *)
(*                  a second element that is no dict, ...)                 *)
(*   shape "other": anything else (None, a str, a dict without the keys)   *)
(***************************************************************************)
One == 100000
NoConf == -1

LSpam == <<"S", "p", "a", "m">>
LHam == <<"H", "a", "m">>
LNotSpamHam == <<"N", "o", "t", " ", "S", "p", "a", "m", " ", "(", "H", "a", "m", ")">>
Labels == {LSpam, LHam, LNotSpamHam}

\* Python's  sub in s  on strings.
Contains(sub, s) ==
    \E i \in 1..(Len(s) - Len(sub) + 1) : SubSeq(s, i, i + Len(sub) - 1) = sub

Item(l, c) == [label |-> l, confidence |-> c]
Reply(sh, its, l, c) == [shape |-> sh, items |-> its, label |-> l, confidence |-> c]
NoReply == Reply("none", <<>>, <<>>, NoConf)

\* next((item['confidence'] for item in items if P(item['label'])), 0)
RECURSIVE FirstContaining(_, _)
FirstContaining(sub, items) ==
    IF items = <<>> THEN 0
    ELSE IF Contains(sub, Head(items).label) THEN Head(items).confidence
    ELSE FirstContaining(sub, Tail(items))

RECURSIVE FirstEqual(_, _)
FirstEqual(l, items) ==
    IF items = <<>> THEN 0
    ELSE IF Head(items).label = l THEN Head(items).confidence
    ELSE FirstEqual(l, Tail(items))

\* d.get(key, 0) on the dict whose entries are items (keys are distinct).
DictGet(key, items) == FirstEqual(key, items)

\* round(x, 4): to the nearest multiple of 10^-4 (the enumerated scores
\* avoid exact halves, whose rounding depends on the binary float).
Round4(x) == ((x + 5) \div 10) * 10

\* app.py:143-172: the scores read off a reply, or the way the parse ends.
\*   kind "scores": spam/ham computed;  kind "unexpected": the else branch;
\*   kind "raised": an exception inside the parse (app.py:191).
Parsed(k, s, h) == [kind |-> k, spam |-> s, ham |-> h]

Normalize(r) ==
    CASE r.shape = "confidences" ->
            Parsed("scores", FirstContaining(LSpam, r.items), FirstContaining(LHam, r.items))
      [] r.shape = "label" ->
            LET c == IF r.confidence = NoConf THEN One \div 2 ELSE r.confidence
            IN  IF r.label = LSpam THEN Parsed("scores", c, One - c)
                                   ELSE Parsed("scores", One - c, c)
      [] r.shape = "pair" ->
            Parsed("scores", DictGet(LSpam, r.items), DictGet(LHam, r.items))
      [] r.shape = "short" -> Parsed("scores", 0, 0)
      [] r.shape = "broken" -> Parsed("raised", 0, 0)
      [] OTHER -> Parsed("unexpected", 0, 0)

(***************************************************************************)
(* Responses.  One record type for every endpoint; the fields an endpoint  *)
(* does not set keep the values of NoResponse.                             *)
(*   error: "" or the kind of the error body                               *)
(*   suggestion: the body has a 'suggestion' key pointing at /warmup       *)
(***************************************************************************)
NoResponse ==
    [status |-> 0, error |-> "", suggestion |-> FALSE, text |-> <<>>,
     label |-> "", confidence |-> NoConf, spam |-> NoConf, ham |-> NoConf,
     raw |-> NoReply, results |-> <<>>, info |-> ""]

ErrorResponse(code, kind) == [NoResponse EXCEPT !.status = code, !.error = kind]

\* Mutant of LabelOf: a tie gives spam.
LabelOfTieSpam(spam_confidence, ham_confidence) ==
    IF spam_confidence >= ham_confidence THEN "spam" ELSE "ham"

\* app.py:174-176
LabelOf(spam_confidence, ham_confidence) ==
    IF spam_confidence > ham_confidence THEN "spam" ELSE "ham"

\* Mutant of ParseResponse: the unexpected-format error does not carry the
\* payload.
ParseResponseNoRaw(text, result) ==
    LET p == Normalize(result) IN
    CASE p.kind = "scores" ->
            [NoResponse EXCEPT !.status = 200, !.text = text,
                               !.label = IF p.spam > p.ham THEN "spam" ELSE "ham",
                               !.confidence = Round4(Max(p.spam, p.ham)),
                               !.spam = Round4(p.spam), !.ham = Round4(p.ham)]
      [] OTHER -> ErrorResponse(500, "unexpected_format")

\* app.py:143-197: the response built from the reply of the predict call.
ParseResponse(text, result) ==
    LET p == Normalize(result) IN
    CASE p.kind = "scores" ->
            [NoResponse EXCEPT !.status = 200, !.text = text,
                               !.label = LabelOf(p.spam, p.ham),
                               !.confidence = Round4(Max(p.spam, p.ham)),
                               !.spam = Round4(p.spam), !.ham = Round4(p.ham)]
      [] p.kind = "unexpected" ->
            [ErrorResponse(500, "unexpected_format") EXCEPT !.raw = result]
      [] OTHER ->
            [ErrorResponse(500, "parse_failed") EXCEPT !.raw = result]

(***************************************************************************)
(* The locals of a request.                                                *)
(*   pc: the statement the worker is about to execute ("idle": no request, *)
(*       "done": the response is built and being returned)                 *)
(*   handler: the route being served                                       *)
(*   text, max_retries, retry_delay, attempt, client, result, response:    *)
(*       the locals of those names; err: the exception in flight           *)
(* and the record of what the request has done so far:                     *)
(*   opens: Client(...) calls; probes: predict("test") calls of get_client;*)
(*   opened: those that returned a handle;                                 *)
(*   predicts: predict calls of the handler itself; replies: those that    *)
(*   returned; waits / pwaits: the sleeps of get_client / of the predict   *)
(*   loop, in order; stamped: wrote _client_init_time; assigned: wrote     *)
(*   _client; entry: what get_client found in the slot ("empty", "fresh",  *)
(*   "stale"); how: how get_client returned ("hit": the cached handle,     *)
(*   "miss": after Connect-and-Verify); body: the kind of request body;    *)
(*   before: what /warmup found in the slot before emptying it;            *)
(*   texts, idx, results: the list, the loop position and the results of   *)
(*   /classify/batch; posts: the requests.post calls of query_model        *)
(***************************************************************************)
IdleFrame ==
    [pc |-> "idle", handler |-> "", text |-> <<>>, max_retries |-> 0,
     retry_delay |-> 0, attempt |-> 0, err |-> "", client |-> None,
     result |-> NoReply, response |-> NoResponse,
     opens |-> 0, opened |-> 0, probes |-> 0, predicts |-> 0, replies |-> 0,
     waits |-> <<>>, pwaits |-> <<>>, stamped |-> FALSE, assigned |-> FALSE,
     entry |-> "", how |-> "", body |-> "", before |-> "",
     texts |-> <<>>, idx |-> 0, results |-> <<>>, posts |-> 0]

Referenced(slot, fr) == {slot} \cup {fr[w].client : w \in Workers}

\* The probe record after a step: garbage handles lose theirs.
Collect(pr, slot, fr) ==
    [h \in Handles |-> IF h \in Referenced(slot, fr) THEN pr[h] ELSE "none"]

\* Client(SPACE_NAME): a new object, distinct from every live handle.
NewHandle == CHOOSE h \in Handles : h \notin Referenced(_client, frame)

InitWith(v, ws) ==
    /\ variant = v
    /\ live = ws
    /\ _client = None
    /\ init_age = NoStamp
    /\ probe = [h \in Handles |-> "none"]
    /\ frame = [w \in Workers |-> IdleFrame]

Init == InitWith("app", {"w1"})

(***************************************************************************)
(* Program constants                                                       *)
(***************************************************************************)
DefaultMaxRetries == 3
DefaultRetryDelay == 10
WarmupMaxRetries == 5
WarmupRetryDelay == 15
max_predict_retries == 3
PredictDelay == 5

\* The outcomes of one upstream call: it answers, it raises
\* json.JSONDecodeError, or it raises any other exception.
Outcomes == {"ok", "json", "other"}

Put(w, f) == frame' = [frame EXCEPT ![w] = f]
Respond(w, r) == Put(w, [frame[w] EXCEPT !.pc = "done", !.response = r])

\* The slot as get_client finds it: empty, holding a handle stamped less
\* than the window ago, or holding an older (or never stamped) one.
EntryKind ==
    IF _client = None THEN "empty"
    ELSE IF init_age # NoStamp /\ init_age < FreshWindow THEN "fresh" ELSE "stale"

\* Mutant of IsFresh: a window one minute short.
IsFreshShortWindow(age) == Truthy(age) /\ age < FreshWindow - 60

\* app.py:37  _client_init_time and (time.time() - _client_init_time) < 300
IsFresh(age) == Truthy(age) /\ age < FreshWindow

\* Where the handler continues when get_client has returned.
AfterGetClient(handler) ==
    CASE handler = "classify" -> "predict"
      [] handler = "batch" -> "b_item"
      [] OTHER -> "w_ok"

(***************************************************************************)
(* get_client (app.py:31-81; testing_api.py:27-66 differs in the window    *)
(* and in having one except branch)                                        *)
(***************************************************************************)
\* app.py:36-37, and the entry of the loop at 43 when the slot is empty
GetClientCheck(w) ==
    /\ frame[w].pc = "gc_check"
    /\ Put(w, [frame[w] EXCEPT
                 !.attempt = 0,
                 !.entry = EntryKind,
                 !.pc = IF _client = None THEN "gc_open"
                        ELSE IF IsFresh(init_age) THEN "gc_cached" ELSE "gc_expire"])
    /\ UNCHANGED <<variant, live, _client, init_age, probe>>

\* app.py:38  return _client
GetClientCached(w) ==
    /\ frame[w].pc = "gc_cached"
    /\ Put(w, [frame[w] EXCEPT !.client = _client, !.how = "hit", !.attempt = 0,
                               !.pc = AfterGetClient(frame[w].handler)])
    /\ UNCHANGED <<variant, live, _client, init_age, probe>>

\* app.py:40-41  _client = None
GetClientExpire(w) ==
    /\ frame[w].pc = "gc_expire"
    /\ _client' = None
    /\ Put(w, [frame[w] EXCEPT !.assigned = TRUE, !.pc = "gc_open"])
    /\ probe' = Collect(probe, _client', frame')
    /\ UNCHANGED <<variant, live, init_age>>

\* app.py:48 when the call Client(...) ends with outcome out
Open(w, out) ==
    IF out = "ok"
    THEN LET h == NewHandle IN
         /\ _client' = h
         /\ Put(w, [frame[w] EXCEPT !.opens = @ + 1, !.opened = @ + 1,
                                    !.assigned = TRUE, !.pc = "gc_probe"])
         /\ probe' = Collect([probe EXCEPT ![h] = "new"], _client', frame')
    ELSE /\ Put(w, [frame[w] EXCEPT !.opens = @ + 1, !.err = out,
                                    !.pc = "gc_fail"])
         /\ UNCHANGED <<_client, probe>>

\* app.py:43-48  _client = Client(SPACE_NAME, verbose=False)
GetClientOpen(w) ==
    /\ frame[w].pc = "gc_open"
    /\ \E out \in Outcomes : Open(w, out)
    /\ UNCHANGED <<variant, live, init_age>>

\* The same against an upstream that answers.
GetClientOpenOk(w) ==
    /\ frame[w].pc = "gc_open"
    /\ Open(w, "ok")
    /\ UNCHANGED <<variant, live, init_age>>

\* app.py:52  test_result = _client.predict("test", api_name="/predict")
\* (on _client = None the attribute lookup raises before any call is made)
Probe(w, outs) ==
    IF _client = None
    THEN /\ Put(w, [frame[w] EXCEPT !.err = "other", !.pc = "gc_fail"])
         /\ UNCHANGED probe
    ELSE \E out \in outs :
           /\ Put(w, [frame[w] EXCEPT
                        !.probes = @ + 1,
                        !.err = IF out = "ok" THEN @ ELSE out,
                        !.pc = IF out = "ok" THEN "gc_stamp" ELSE "gc_fail"])
           /\ probe' = [probe EXCEPT
                          ![_client] = IF out = "ok" THEN "passed" ELSE "failed"]

GetClientProbe(w) ==
    /\ frame[w].pc = "gc_probe"
    /\ Probe(w, Outcomes)
    /\ UNCHANGED <<variant, live, _client, init_age>>

\* The same against an upstream that answers.
GetClientProbeOk(w) ==
    /\ frame[w].pc = "gc_probe"
    /\ Probe(w, {"ok"})
    /\ UNCHANGED <<variant, live, _client, init_age>>

\* Mutant of GetClientStamp: the timestamp is not written.
GetClientStampSkipped(w) ==
    /\ frame[w].pc = "gc_stamp"
    /\ Put(w, [frame[w] EXCEPT !.pc = "gc_return"])
    /\ UNCHANGED <<variant, live, _client, init_age, probe>>

\* app.py:54  _client_init_time = time.time()
GetClientStamp(w) ==
    /\ frame[w].pc = "gc_stamp"
    /\ init_age' = 0
    /\ Put(w, [frame[w] EXCEPT !.stamped = TRUE, !.pc = "gc_return"])
    /\ UNCHANGED <<variant, live, _client, probe>>

\* app.py:56  return _client
GetClientReturn(w) ==
    /\ frame[w].pc = "gc_return"
    /\ Put(w, [frame[w] EXCEPT !.client = _client, !.how = "miss", !.attempt = 0,
                               !.pc = AfterGetClient(frame[w].handler)])
    /\ UNCHANGED <<variant, live, _client, init_age, probe>>

\* Mutant of RetryWait: a constant backoff.
RetryWaitFlat(retry_delay, attempt) == retry_delay

\* The backoff of get_client after failed attempt number attempt + 1.
RetryWait(retry_delay, attempt) == retry_delay * (attempt + 1)

\* Whether a failed attempt is followed by another one.
MayRetry(attempt, max_retries) == attempt < max_retries - 1

\* Mutant of GetClientFail: after the last failed attempt the call returns
\* what the slot holds (the statement at app.py:81) instead of raising.
GetClientFailReturns(w) ==
    /\ frame[w].pc = "gc_fail"
    /\ IF MayRetry(frame[w].attempt, frame[w].max_retries)
       THEN LET d == RetryWait(frame[w].retry_delay, frame[w].attempt) IN
            /\ Put(w, [frame[w] EXCEPT !.waits = Append(@, d), !.attempt = @ + 1,
                                       !.pc = "gc_open"])
            /\ init_age' = Older(init_age, d)
       ELSE /\ Put(w, [frame[w] EXCEPT !.client = _client, !.how = "miss", !.attempt = 0,
                                       !.pc = AfterGetClient(frame[w].handler)])
            /\ UNCHANGED init_age
    /\ UNCHANGED <<variant, live, _client, probe>>

\* app.py:58-79: both except branches sleep retry_delay * (attempt + 1) and
\* go round the loop, or raise after the last attempt.
GetClientFail(w) ==
    /\ frame[w].pc = "gc_fail"
    /\ IF MayRetry(frame[w].attempt, frame[w].max_retries)
       THEN LET d == RetryWait(frame[w].retry_delay, frame[w].attempt) IN
            /\ Put(w, [frame[w] EXCEPT !.waits = Append(@, d), !.attempt = @ + 1,
                                       !.pc = "gc_open"])
            /\ init_age' = Older(init_age, d)
       ELSE /\ Put(w, [frame[w] EXCEPT !.pc = "gc_raised"])
            /\ UNCHANGED init_age
    /\ UNCHANGED <<variant, live, _client, probe>>

(***************************************************************************)
(* Inputs: request bodies and upstream replies                             *)
(***************************************************************************)
\* What request.get_json() finds: no JSON body (it returns None or raises), a
\* dict without the key 'text', a dict whose 'text' is no str, a dict with a
\* str under 'text'.
Body(k, t) == [kind |-> k, text |-> t]
Bodies == {Body("none", <<>>), Body("nokey", <<>>), Body("nonstr", <<>>)}
          \cup {Body("text", t) : t \in RawTexts}

Scores == {0, 2000, 3000, 50004, 97000}

ItemLists(n) == SeqsUpTo({Item(l, c) : l \in Labels, c \in Scores}, n)
DistinctKeys(its) == \A i, j \in 1..Len(its) : i # j => its[i].label # its[j].label

AllReplies ==
    {Reply("confidences", its, <<>>, NoConf) : its \in ItemLists(2)}
    \cup {Reply("label", <<>>, l, c) : l \in Labels, c \in Scores \cup {NoConf}}
    \cup {Reply("pair", its, <<>>, NoConf) : its \in {x \in ItemLists(2) : DistinctKeys(x)}}
    \cup {Reply(sh, <<>>, <<>>, NoConf) : sh \in {"short", "broken", "other"}}

\* The replies the upstream gives in the request-level specifications: one
\* or two of each shape.
SomeReplies ==
    {Reply("confidences", <<Item(LSpam, 97000), Item(LNotSpamHam, 2000)>>, <<>>, NoConf),
     Reply("confidences", <<Item(LNotSpamHam, 97000), Item(LSpam, 2000)>>, <<>>, NoConf),
     Reply("label", <<>>, LHam, 50004),
     Reply("pair", <<Item(LSpam, 2000), Item(LHam, 2000)>>, <<>>, NoConf),
     Reply("broken", <<>>, <<>>, NoConf),
     Reply("other", <<>>, <<>>, NoConf)}

(***************************************************************************)
(* POST /classify (app.py:84-204)                                          *)
(***************************************************************************)
\* The frame of a handler that is about to call get_client(n, d).
Calling(handler, text, n, d) ==
    [IdleFrame EXCEPT !.pc = "gc_check", !.handler = handler, !.text = text,
                      !.max_retries = n, !.retry_delay = d]

\* app.py:105-113 with the outer except at 199-204: a body that makes
\* get_json() return None or raise, or whose 'text' has no strip(), ends in
\* the outer except.
ClassifyEntry(body) ==
    CASE body.kind \in {"none", "nonstr"} ->
            [IdleFrame EXCEPT !.pc = "done", !.handler = "classify",
                              !.response = ErrorResponse(500, "classification_failed")]
      [] body.kind = "nokey" \/ Strip(body.text) = <<>> ->
            [IdleFrame EXCEPT !.pc = "done", !.handler = "classify",
                              !.response = ErrorResponse(400, "no_text")]
      [] OTHER ->
            Calling("classify", Strip(body.text), DefaultMaxRetries, DefaultRetryDelay)

ClassifyStart(w) ==
    /\ w \in live
    /\ variant = "app"
    /\ frame[w].pc = "idle"
    /\ \E body \in Bodies : Put(w, [ClassifyEntry(body) EXCEPT !.body = body.kind])
    /\ UNCHANGED <<variant, live, _client, init_age, probe>>

\* The same for the one body {"text": "a"}.
ClassifyStartText(w) ==
    /\ w \in live
    /\ variant = "app"
    /\ frame[w].pc = "idle"
    /\ Put(w, [ClassifyEntry(Body("text", <<"a">>)) EXCEPT !.body = "text"])
    /\ UNCHANGED <<variant, live, _client, init_age, probe>>

\* Mutant of ClassifyUnavailable: the failure of get_client reaches the outer
\* except instead.
ClassifyUnavailableAs500(w) ==
    /\ frame[w].pc = "gc_raised"
    /\ frame[w].handler = "classify"
    /\ variant = "app"
    /\ Respond(w, ErrorResponse(500, "classification_failed"))
    /\ UNCHANGED <<variant, live, _client, init_age, probe>>

\* app.py:116-123  except around get_client()
ClassifyUnavailable(w) ==
    /\ frame[w].pc = "gc_raised"
    /\ frame[w].handler = "classify"
    /\ variant = "app"
    /\ Respond(w, [ErrorResponse(503, "space_unavailable") EXCEPT !.suggestion = TRUE])
    /\ UNCHANGED <<variant, live, _client, init_age, probe>>

\* Mutant of PredictWait: the backoff starts at twice the delay.
PredictWaitLong(attempt) == PredictDelay * (attempt + 2)

\* The backoff of the predict loop after failed attempt number attempt + 1.
PredictWait(attempt) == PredictDelay * (attempt + 1)

\* app.py:129-140: one turn of the predict loop.  On client = None the
\* attribute lookup raises without a call.  The exception raised after the
\* last attempt ends in the outer except (app.py:199-204).
ClassifyPredict(w) ==
    /\ frame[w].pc = "predict"
    /\ frame[w].handler = "classify"
    /\ variant = "app"
    /\ \E reply \in SomeReplies \cup {NoReply} :
         \* NoReply: the call raises
         LET f == IF frame[w].client = None THEN frame[w]
                  ELSE [frame[w] EXCEPT !.predicts = @ + 1]
         IN
         IF frame[w].client # None /\ reply # NoReply
         THEN /\ Put(w, [f EXCEPT !.result = reply, !.replies = @ + 1, !.pc = "parse"])
              /\ UNCHANGED init_age
         ELSE IF MayRetry(f.attempt, max_predict_retries)
         THEN /\ Put(w, [f EXCEPT !.pwaits = Append(@, PredictWait(f.attempt)),
                                  !.attempt = @ + 1])
              /\ init_age' = Older(init_age, PredictWait(f.attempt))
         ELSE /\ Put(w, [f EXCEPT !.pc = "done",
                                  !.response = ErrorResponse(500, "classification_failed")])
              /\ UNCHANGED init_age
    /\ UNCHANGED <<variant, live, _client, probe>>

\* app.py:142-197
ClassifyParse(w) ==
    /\ frame[w].pc = "parse"
    /\ frame[w].handler = "classify"
    /\ variant = "app"
    /\ Respond(w, ParseResponse(frame[w].text, frame[w].result))
    /\ UNCHANGED <<variant, live, _client, init_age, probe>>

(***************************************************************************)
(* GET /warmup, /health, /  (app.py:266-337)                               *)
(***************************************************************************)
\* Mutant of WarmupStart: the slot is not emptied.
WarmupStartKeepsSlot(w) ==
    /\ w \in live
    /\ variant = "app"
    /\ frame[w].pc = "idle"
    /\ Put(w, [Calling("warmup", <<>>, WarmupMaxRetries, WarmupRetryDelay)
                 EXCEPT !.assigned = TRUE, !.before = EntryKind])
    /\ UNCHANGED <<variant, live, _client, init_age, probe>>

\* app.py:269-277  _client = None; get_client(max_retries=5, retry_delay=15)
WarmupStart(w) ==
    /\ w \in live
    /\ variant = "app"
    /\ frame[w].pc = "idle"
    /\ _client' = None
    /\ Put(w, [Calling("warmup", <<>>, WarmupMaxRetries, WarmupRetryDelay)
                 EXCEPT !.assigned = TRUE, !.before = EntryKind])
    /\ probe' = Collect(probe, _client', frame')
    /\ UNCHANGED <<variant, live, init_age>>

\* app.py:279-286
WarmupRespond(w) ==
    /\ frame[w].pc = "w_ok"
    /\ variant = "app"
    /\ Respond(w, [NoResponse EXCEPT !.status = 200, !.info = "success"])
    /\ UNCHANGED <<variant, live, _client, init_age, probe>>

\* app.py:287-294
WarmupFailed(w) ==
    /\ frame[w].pc = "gc_raised"
    /\ frame[w].handler = "warmup"
    /\ Respond(w, [ErrorResponse(503, "warmup_failed") EXCEPT !.info = "failed"])
    /\ UNCHANGED <<variant, live, _client, init_age, probe>>

\* Mutant of Health: the handler empties the slot.
HealthEmptiesSlot(w) ==
    /\ w \in live
    /\ frame[w].pc = "idle"
    /\ _client' = None
    /\ Put(w, [IdleFrame EXCEPT
                 !.pc = "done", !.handler = "health",
                 !.response = [NoResponse EXCEPT !.status = 200, !.info = "not_initialized"]])
    /\ UNCHANGED <<variant, live, init_age, probe>>

\* app.py:297-308, testing_api.py:180-189
Health(w) ==
    /\ w \in live
    /\ frame[w].pc = "idle"
    /\ Put(w, [IdleFrame EXCEPT
                 !.pc = "done", !.handler = "health",
                 !.response = [NoResponse EXCEPT
                     !.status = 200,
                     !.info = IF _client # None THEN "connected" ELSE "not_initialized"]])
    /\ UNCHANGED <<variant, live, _client, init_age, probe>>

\* app.py:311-337, testing_api.py:192-209
Home(w) ==
    /\ w \in live
    /\ frame[w].pc = "idle"
    /\ Put(w, [IdleFrame EXCEPT !.pc = "done", !.handler = "home",
                                !.response = [NoResponse EXCEPT !.status = 200,
                                                                !.info = "docs"]])
    /\ UNCHANGED <<variant, live, _client, init_age, probe>>

(***************************************************************************)
(* POST /classify/batch (app.py:207-263)                                   *)
(***************************************************************************)
\* An element of the 'texts' list: a str, or a JSON value that is no str.
StrItem(t) == [str |-> TRUE, text |-> t]
NonStrItem == [str |-> FALSE, text |-> <<>>]
BatchItems == {StrItem(<<" ">>), StrItem(<<"a">>), StrItem(<<" ", "a">>), NonStrItem}

\* What get_json() finds: no JSON body, a dict without 'texts', a 'texts'
\* that is no list, a list (possibly empty).
BatchBody(k, l) == [kind |-> k, texts |-> l]
BatchBodies == {BatchBody("none", <<>>), BatchBody("nokey", <<>>), BatchBody("nolist", <<>>)}
               \cup {BatchBody("list", l) : l \in SeqsUpTo(BatchItems, MaxBatch)}

BatchFailed == ErrorResponse(500, "batch_failed")

\* app.py:217-226 with the outer except at 258-263
BatchEntry(body) ==
    CASE body.kind = "none" ->
            [IdleFrame EXCEPT !.pc = "done", !.handler = "batch", !.response = BatchFailed]
      [] body.kind \in {"nokey", "nolist"} \/ body.texts = <<>> ->
            [IdleFrame EXCEPT !.pc = "done", !.handler = "batch",
                              !.response = ErrorResponse(400, "no_texts")]
      [] OTHER ->
            [Calling("batch", <<>>, DefaultMaxRetries, DefaultRetryDelay)
                EXCEPT !.texts = body.texts, !.idx = 1]

BatchStart(w) ==
    /\ w \in live
    /\ variant = "app"
    /\ frame[w].pc = "idle"
    /\ \E body \in BatchBodies : Put(w, [BatchEntry(body) EXCEPT !.body = body.kind])
    /\ UNCHANGED <<variant, live, _client, init_age, probe>>

\* app.py:225-231
BatchUnavailable(w) ==
    /\ frame[w].pc = "gc_raised"
    /\ frame[w].handler = "batch"
    /\ Respond(w, [ErrorResponse(503, "space_unavailable") EXCEPT !.suggestion = TRUE])
    /\ UNCHANGED <<variant, live, _client, init_age, probe>>

ErrorEntry(t) == [text |-> t, error |-> TRUE, label |-> "", confidence |-> NoConf]

\* app.py:239-248: result['confidences'] raises unless the reply is a dict
\* with that key holding a list.
BatchEntryOf(t, result) ==
    IF result.shape = "confidences"
    THEN LET spam_conf == FirstContaining(LSpam, result.items)
             ham_conf == FirstContaining(LHam, result.items)
         IN  [text |-> t, error |-> FALSE, label |-> LabelOf(spam_conf, ham_conf),
              confidence |-> Round4(Max(spam_conf, ham_conf))]
    ELSE ErrorEntry(t)

\* Mutant of BatchItem: a failed predict call aborts the batch.
BatchItemAbortsOnFailure(w) ==
    /\ frame[w].pc = "b_item"
    /\ frame[w].idx <= Len(frame[w].texts)
    /\ LET f == frame[w]
           item == f.texts[f.idx]
       IN  IF ~item.str
           THEN Put(w, [f EXCEPT !.pc = "done", !.response = BatchFailed])
           ELSE IF Strip(item.text) = <<>>
           THEN Put(w, [f EXCEPT !.idx = @ + 1])
           ELSE \E reply \in SomeReplies \cup {NoReply} :
                  IF f.client = None \/ reply = NoReply
                  THEN Put(w, [f EXCEPT !.pc = "done", !.response = BatchFailed])
                  ELSE Put(w, [f EXCEPT
                                 !.idx = @ + 1, !.predicts = @ + 1, !.replies = @ + 1,
                                 !.result = reply,
                                 !.results = Append(@, BatchEntryOf(item.text, reply))])
    /\ UNCHANGED <<variant, live, _client, init_age, probe>>

\* app.py:234-254: one turn of the loop.  text.strip() stands outside the
\* inner try, so an element without strip() ends in the outer except.
BatchItem(w) ==
    /\ frame[w].pc = "b_item"
    /\ frame[w].idx <= Len(frame[w].texts)
    /\ LET f == frame[w]
           item == f.texts[f.idx]
       IN  IF ~item.str
           THEN Put(w, [f EXCEPT !.pc = "done", !.response = BatchFailed])
           ELSE IF Strip(item.text) = <<>>
           THEN Put(w, [f EXCEPT !.idx = @ + 1])
           ELSE IF f.client = None
           THEN Put(w, [f EXCEPT !.idx = @ + 1,
                                 !.results = Append(@, ErrorEntry(item.text))])
           ELSE \E reply \in SomeReplies \cup {NoReply} :
                  Put(w, [f EXCEPT
                            !.idx = @ + 1, !.predicts = @ + 1,
                            !.replies = IF reply = NoReply THEN @ ELSE @ + 1,
                            !.result = IF reply = NoReply THEN @ ELSE reply,
                            !.results = Append(@, IF reply = NoReply
                                                  THEN ErrorEntry(item.text)
                                                  ELSE BatchEntryOf(item.text, reply))])
    /\ UNCHANGED <<variant, live, _client, init_age, probe>>

\* app.py:256
BatchRespond(w) ==
    /\ frame[w].pc = "b_item"
    /\ frame[w].idx > Len(frame[w].texts)
    /\ Respond(w, [NoResponse EXCEPT !.status = 200, !.results = frame[w].results])
    /\ UNCHANGED <<variant, live, _client, init_age, probe>>

(***************************************************************************)
(* src/testing_api.py: the handlers that differ from app.py                *)
(***************************************************************************)
TestingRetryDelay == 15
TestingPredictDelay == 5

\* testing_api.py:72-87
T_ClassifyEntry(body, data) ==
    CASE body.kind = "none" /\ data = "raises" ->
            [IdleFrame EXCEPT !.pc = "done", !.handler = "classify",
                              !.response = ErrorResponse(500, "classification_failed")]
      [] body.kind = "none" ->
            [IdleFrame EXCEPT !.pc = "done", !.handler = "classify",
                              !.response = ErrorResponse(400, "no_json")]
      [] body.kind = "nonstr" ->
            [IdleFrame EXCEPT !.pc = "done", !.handler = "classify",
                              !.response = ErrorResponse(500, "classification_failed")]
      [] body.kind = "nokey" \/ Strip(body.text) = <<>> ->
            [IdleFrame EXCEPT !.pc = "done", !.handler = "classify",
                              !.response = ErrorResponse(400, "no_text")]
      [] OTHER ->
            Calling("classify", Strip(body.text), DefaultMaxRetries, TestingRetryDelay)

\* get_json() on a request without a JSON body returns None or raises.
T_ClassifyStart(w) ==
    /\ w \in live
    /\ variant = "testing"
    /\ frame[w].pc = "idle"
    /\ \E body \in Bodies, data \in {"None", "raises"} :
         Put(w, [T_ClassifyEntry(body, data) EXCEPT !.body = body.kind])
    /\ UNCHANGED <<variant, live, _client, init_age, probe>>

\* testing_api.py:86-93
T_ClassifyUnavailable(w) ==
    /\ frame[w].pc = "gc_raised"
    /\ frame[w].handler = "classify"
    /\ variant = "testing"
    /\ Respond(w, [ErrorResponse(503, "space_connection_failed") EXCEPT !.suggestion = TRUE])
    /\ UNCHANGED <<variant, live, _client, init_age, probe>>

\* testing_api.py:107  time.sleep(5)
T_PredictWait(attempt) == TestingPredictDelay

\* testing_api.py:95-109, and the outer except at 137-142
T_ClassifyPredict(w) ==
    /\ frame[w].pc = "predict"
    /\ frame[w].handler = "classify"
    /\ variant = "testing"
    /\ \E reply \in SomeReplies \cup {NoReply} :
         LET f == IF frame[w].client = None THEN frame[w]
                  ELSE [frame[w] EXCEPT !.predicts = @ + 1]
         IN
         IF frame[w].client # None /\ reply # NoReply
         THEN /\ Put(w, [f EXCEPT !.result = reply, !.replies = @ + 1, !.pc = "parse"])
              /\ UNCHANGED init_age
         ELSE IF MayRetry(f.attempt, max_predict_retries)
         THEN /\ Put(w, [f EXCEPT !.pwaits = Append(@, T_PredictWait(f.attempt)),
                                  !.attempt = @ + 1])
              /\ init_age' = Older(init_age, T_PredictWait(f.attempt))
         ELSE /\ Put(w, [f EXCEPT !.pc = "done",
                                  !.response = ErrorResponse(500, "classification_failed")])
              /\ UNCHANGED init_age
    /\ UNCHANGED <<variant, live, _client, probe>>

\* testing_api.py:111-142: only the 'confidences' list is read, with exact
\* label matches; any exception ends in the outer except.
T_ParseResponse(text, result) ==
    IF result.shape = "confidences"
    THEN LET spam_conf == FirstEqual(LSpam, result.items)
             ham_conf == FirstEqual(LNotSpamHam, result.items)
         IN  [NoResponse EXCEPT !.status = 200, !.text = text,
                                !.label = LabelOf(spam_conf, ham_conf),
                                !.confidence = Round4(Max(spam_conf, ham_conf)),
                                !.spam = Round4(spam_conf), !.ham = Round4(ham_conf)]
    ELSE ErrorResponse(500, "classification_failed")

T_ClassifyParse(w) ==
    /\ frame[w].pc = "parse"
    /\ frame[w].handler = "classify"
    /\ variant = "testing"
    /\ Respond(w, T_ParseResponse(frame[w].text, frame[w].result))
    /\ UNCHANGED <<variant, live, _client, init_age, probe>>

\* testing_api.py:148-157
T_WarmupStart(w) ==
    /\ w \in live
    /\ variant = "testing"
    /\ frame[w].pc = "idle"
    /\ _client' = None
    /\ Put(w, [Calling("warmup", <<>>, WarmupMaxRetries, TestingRetryDelay)
                 EXCEPT !.assigned = TRUE, !.before = EntryKind])
    /\ probe' = Collect(probe, _client', frame')
    /\ UNCHANGED <<variant, live, init_age>>

\* testing_api.py:159-177  the additional test prediction and the response
T_WarmupPredict(w) ==
    /\ frame[w].pc = "w_ok"
    /\ variant = "testing"
    /\ \E out \in Outcomes :
         IF frame[w].client # None /\ out = "ok"
         THEN Respond(w, [NoResponse EXCEPT !.status = 200, !.info = "success"])
         ELSE Respond(w, [ErrorResponse(503, "warmup_failed") EXCEPT !.info = "failed"])
    /\ UNCHANGED <<variant, live, _client, init_age, probe>>

(***************************************************************************)
(* src/backend_inference_api.py: /classify through the Inference API       *)
(***************************************************************************)
QueryMaxRetries == 5
QueryDelay == 10

\* The status codes of the Inference API: 200, 503 (model loading), and one
\* other code.
Statuses == {200, 503, 404}

\* str.lower() on the characters that occur in labels.
LowerChar(c) ==
    CASE c = "S" -> "s" [] c = "H" -> "h" [] c = "N" -> "n" [] c = "L" -> "l"
      [] c = "A" -> "a" [] c = "B" -> "b" [] c = "E" -> "e" [] OTHER -> c

Lower(str) == [i \in 1..Len(str) |-> LowerChar(str[i])]

LLabel0 == <<"L", "A", "B", "E", "L", "_", "0">>
LLabel1 == <<"L", "A", "B", "E", "L", "_", "1">>

\* The JSON of a 200 answer: shape "list" is a non-empty list whose first
\* element is the list of {label, score} predictions (items), "other" any
\* value that is no non-empty list, "broken" a non-empty list whose first
\* element makes the parse raise.
BackendReplies ==
    {Reply("list", <<Item(LLabel0, 97000), Item(LLabel1, 3000)>>, <<>>, NoConf),
     Reply("list", <<Item(LSpam, 50004), Item(LHam, 50004)>>, <<>>, NoConf),
     Reply("list", <<Item(LNotSpamHam, 97000), Item(LSpam, 3000)>>, <<>>, NoConf),
     Reply("list", <<>>, <<>>, NoConf),
     Reply("broken", <<>>, <<>>, NoConf),
     Reply("other", <<>>, <<>>, NoConf)}

\* next((p['score'] for p in predictions
\*       if tag in p['label'] or word in p['label'].lower()), 0)
RECURSIVE FirstScore(_, _, _)
FirstScore(tag, word, predictions) ==
    IF predictions = <<>> THEN 0
    ELSE IF \/ Contains(tag, Head(predictions).label)
            \/ Contains(word, Lower(Head(predictions).label))
         THEN Head(predictions).confidence
    ELSE FirstScore(tag, word, Tail(predictions))

\* backend_inference_api.py:67-92
B_ParseResponse(text, result) ==
    CASE result.shape = "list" ->
            LET spam_score == FirstScore(LLabel1, <<"s", "p", "a", "m">>, result.items)
                ham_score == FirstScore(LLabel0, <<"h", "a", "m">>, result.items)
            IN  [NoResponse EXCEPT !.status = 200, !.text = text,
                                   !.label = LabelOf(spam_score, ham_score),
                                   !.confidence = Round4(Max(spam_score, ham_score)),
                                   !.spam = Round4(spam_score), !.ham = Round4(ham_score)]
      [] result.shape = "other" -> ErrorResponse(500, "unexpected_format")
      [] OTHER -> ErrorResponse(500, "exception")

\* backend_inference_api.py:56-65 with the except at 90-92
B_ClassifyEntry(body) ==
    CASE body.kind \in {"none", "nonstr"} ->
            [IdleFrame EXCEPT !.pc = "done", !.handler = "classify",
                              !.response = ErrorResponse(500, "exception")]
      [] body.kind = "nokey" \/ Strip(body.text) = <<>> ->
            [IdleFrame EXCEPT !.pc = "done", !.handler = "classify",
                              !.response = ErrorResponse(400, "no_text")]
      [] OTHER ->
            [IdleFrame EXCEPT !.pc = "q_post", !.handler = "classify",
                              !.text = Strip(body.text),
                              !.max_retries = QueryMaxRetries]

B_ClassifyStart(w) ==
    /\ w \in live
    /\ variant = "backend"
    /\ frame[w].pc = "idle"
    /\ \E body \in Bodies : Put(w, [B_ClassifyEntry(body) EXCEPT !.body = body.kind])
    /\ UNCHANGED <<variant, live, _client, init_age, probe>>

\* backend_inference_api.py:44  wait_time = 10 * (attempt + 1)
QueryWait(attempt) == QueryDelay * (attempt + 1)

\* Mutant of QueryModel: a status other than 200 and 503 is followed by the
\* next request.
QueryModelRetriesAnyStatus(w) ==
    /\ frame[w].pc = "q_post"
    /\ variant = "backend"
    /\ \E status \in Statuses, reply \in BackendReplies :
         LET f == [frame[w] EXCEPT !.posts = @ + 1] IN
         CASE status = 200 ->
                 Put(w, [f EXCEPT !.result = reply, !.replies = @ + 1, !.pc = "q_parse"])
           [] status = 503 ->
                 LET g == [f EXCEPT !.waits = Append(@, QueryWait(f.attempt)),
                                    !.attempt = @ + 1]
                 IN  IF g.attempt < g.max_retries
                     THEN Put(w, g)
                     ELSE Put(w, [g EXCEPT !.pc = "done",
                                           !.response = ErrorResponse(500, "exception")])
           [] OTHER ->
                 LET g == [f EXCEPT !.attempt = @ + 1]
                 IN  IF g.attempt < g.max_retries
                     THEN Put(w, g)
                     ELSE Put(w, [g EXCEPT !.pc = "done",
                                           !.response = ErrorResponse(500, "exception")])
    /\ UNCHANGED <<variant, live, _client, init_age, probe>>

\* backend_inference_api.py:37-51: one turn of the loop of query_model.  A
\* 503 is followed by the sleep whatever the attempt; when it was the last
\* turn, the raise at line 51 follows and ends in the except at 90-92.
QueryModel(w) ==
    /\ frame[w].pc = "q_post"
    /\ variant = "backend"
    /\ \E status \in Statuses, reply \in BackendReplies :
         LET f == [frame[w] EXCEPT !.posts = @ + 1] IN
         CASE status = 200 ->
                 Put(w, [f EXCEPT !.result = reply, !.replies = @ + 1, !.pc = "q_parse"])
           [] status = 503 ->
                 LET g == [f EXCEPT !.waits = Append(@, QueryWait(f.attempt)),
                                    !.attempt = @ + 1]
                 IN  IF g.attempt < g.max_retries
                     THEN Put(w, g)
                     ELSE Put(w, [g EXCEPT !.pc = "done",
                                           !.response = ErrorResponse(500, "exception")])
           [] OTHER ->
                 Put(w, [f EXCEPT !.pc = "done",
                                  !.response = ErrorResponse(500, "exception")])
    /\ UNCHANGED <<variant, live, _client, init_age, probe>>

\* backend_inference_api.py:65-92
B_ClassifyParse(w) ==
    /\ frame[w].pc = "q_parse"
    /\ variant = "backend"
    /\ Respond(w, B_ParseResponse(frame[w].text, frame[w].result))
    /\ UNCHANGED <<variant, live, _client, init_age, probe>>

\* backend_inference_api.py:95-111: /health and / return constant documents.
B_HealthHome(w) ==
    /\ w \in live
    /\ variant = "backend"
    /\ frame[w].pc = "idle"
    /\ \E h \in {"health", "home"} :
         Put(w, [IdleFrame EXCEPT !.pc = "done", !.handler = h,
                                  !.response = [NoResponse EXCEPT !.status = 200,
                                                                  !.info = h]])
    /\ UNCHANGED <<variant, live, _client, init_age, probe>>

\* The response is sent; the frame and its locals are gone.
Finish(w) ==
    /\ frame[w].pc = "done"
    /\ Put(w, IdleFrame)
    /\ probe' = Collect(probe, _client, frame')
    /\ UNCHANGED <<variant, live, _client, init_age>>

\* Five seconds pass between two requests.  A handler reads the clock once,
\* on entry to get_client (app.py:37), so the time its upstream calls take
\* shows only in the age later requests find, which the time between
\* requests covers; its sleeps are part of its own steps.
Tick ==
    /\ \A w \in Workers : frame[w].pc = "idle"
    /\ init_age # NoStamp
    /\ init_age < FreshWindow + 5
    /\ init_age' = Older(init_age, 5)
    /\ UNCHANGED <<variant, live, _client, probe, frame>>

GetClientStep(w) ==
    \/ GetClientCheck(w)
    \/ GetClientCached(w)
    \/ GetClientExpire(w)
    \/ GetClientOpen(w)
    \/ GetClientProbe(w)
    \/ GetClientStamp(w)
    \/ GetClientReturn(w)
    \/ GetClientFail(w)

Next ==
    \/ \E w \in Workers :
         \/ ClassifyStart(w)
         \/ GetClientStep(w)
         \/ ClassifyUnavailable(w)
         \/ ClassifyPredict(w)
         \/ ClassifyParse(w)
         \/ BatchStart(w)
         \/ BatchUnavailable(w)
         \/ BatchItem(w)
         \/ BatchRespond(w)
         \/ WarmupStart(w)
         \/ WarmupRespond(w)
         \/ WarmupFailed(w)
         \/ Health(w)
         \/ Home(w)
         \/ Finish(w)
    \/ Tick

Spec == Init /\ [][Next]_vars

\* src/testing_api.py served by one worker.
InitTesting == InitWith("testing", {"w1"})

NextTesting ==
    \/ \E w \in Workers :
         \/ T_ClassifyStart(w)
         \/ GetClientStep(w)
         \/ T_ClassifyUnavailable(w)
         \/ T_ClassifyPredict(w)
         \/ T_ClassifyParse(w)
         \/ T_WarmupStart(w)
         \/ T_WarmupPredict(w)
         \/ WarmupFailed(w)
         \/ Health(w)
         \/ Home(w)
         \/ Finish(w)
    \/ Tick

SpecTesting == InitTesting /\ [][NextTesting]_vars

\* Either file served by one worker.
InitBoth == \E v \in {"app", "testing"} : InitWith(v, {"w1"})

NextBoth == Next \/ NextTesting

SpecBoth == InitBoth /\ [][NextBoth]_vars

\* The states of the slot that requests find: empty, or holding a verified
\* handle, fresh or stale.
SlotStates == {"empty", "fresh", "stale"}

InitSlot(st, ws) ==
    /\ variant = "app"
    /\ live = ws
    /\ _client = IF st = "empty" THEN None ELSE "h1"
    /\ init_age = CASE st = "empty" -> NoStamp
                     [] st = "fresh" -> 0
                     [] OTHER -> AppWindow + 5
    /\ probe = [h \in Handles |-> IF st # "empty" /\ h = "h1" THEN "passed" ELSE "none"]

(***************************************************************************)
(* /classify requests of app.py handled by one worker, from every state of *)
(* the slot.  The worker runs a handler it has entered to its end: the     *)
(* code is sequential, every sleep is finite and every upstream call       *)
(* returns or raises.                                                      *)
(***************************************************************************)
InitClassify ==
    /\ \E st \in SlotStates : InitSlot(st, {"w1"})
    /\ frame = [w \in Workers |-> IdleFrame]

ClassifyProgress(w) ==
    \/ GetClientStep(w)
    \/ ClassifyUnavailable(w)
    \/ ClassifyPredict(w)
    \/ ClassifyParse(w)

NextClassify ==
    \E w \in Workers :
        \/ ClassifyStart(w)
        \/ ClassifyProgress(w)
        \/ Finish(w)

SpecClassify ==
    InitClassify /\ [][NextClassify]_vars
    /\ \A w \in Workers : WF_vars(ClassifyProgress(w))

\* src/backend_inference_api.py served by one worker.
InitBackend == InitWith("backend", {"w1"})

NextBackend ==
    \E w \in Workers :
        \/ B_ClassifyStart(w)
        \/ QueryModel(w)
        \/ B_ClassifyParse(w)
        \/ B_HealthHome(w)
        \/ Finish(w)

SpecBackend == InitBackend /\ [][NextBackend]_vars

(***************************************************************************)
(* app.py served by workers that share the module globals (threads of one  *)
(* process): /warmup requests and /classify requests, the latter followed  *)
(* up to the return of their get_client() call, handled concurrently,      *)
(* every statement that touches a global being one step.  The upstream     *)
(* answers every open and every probe, so an attempt fails only by what    *)
(* another worker did to the slot.  The slot starts empty, or holding a    *)
(* verified handle, fresh or stale.                                        *)
(***************************************************************************)
\* The loop of get_client against an upstream that answers.
GetClientLoopOk(w) ==
    \/ GetClientExpire(w)
    \/ GetClientOpenOk(w)
    \/ GetClientProbeOk(w)
    \/ GetClientStamp(w)
    \/ GetClientReturn(w)
    \/ GetClientFail(w)

InitConc ==
    /\ \E st \in SlotStates : InitSlot(st, {"w1", "w2"})
    /\ frame = [w \in Workers |-> IdleFrame]

NextConc ==
    \E w \in Workers :
        \/ ClassifyStartText(w)
        \/ GetClientCheck(w)
        \/ GetClientCached(w)
        \/ GetClientLoopOk(w)
        \/ ClassifyUnavailable(w)
        \/ WarmupStart(w)
        \/ WarmupRespond(w)
        \/ WarmupFailed(w)
        \/ Finish(w)

SpecConc == InitConc /\ [][NextConc]_vars

(***************************************************************************)
(* Every worker inside one get_client() call of a /classify request, on an *)
(* empty or stale slot, against an upstream that answers every open and    *)
(* every probe.  The calls arrived together: each worker has evaluated the *)
(* condition at app.py:36-37 on the slot as it was and is about to go on   *)
(* (to app.py:41 on a stale slot, to the loop on an empty one).            *)
(***************************************************************************)
InitConverge ==
    \E st \in {"empty", "stale"} :
        /\ InitSlot(st, Workers)
        /\ frame = [w \in Workers |->
                      [Calling("classify", <<"a">>, DefaultMaxRetries, DefaultRetryDelay)
                         EXCEPT !.body = "text", !.entry = st,
                                !.pc = IF st = "stale" THEN "gc_expire" ELSE "gc_open"]]

NextConverge == \E w \in Workers : GetClientLoopOk(w)

SpecConverge == InitConverge /\ [][NextConverge]_vars

(***************************************************************************)
(* The reply normalizer on its own: a /classify request of app.py that has *)
(* its handle and has just received a reply, for every reply.              *)
(***************************************************************************)
InitNorm ==
    /\ variant = "app"
    /\ live = {"w1"}
    /\ _client = "h1"
    /\ init_age = 0
    /\ probe = [h \in Handles |-> IF h = "h1" THEN "passed" ELSE "none"]
    /\ \E reply \in AllReplies, t \in {<<"a">>, <<"a", "a">>} :
         frame = [w \in Workers |->
                    IF w = "w1"
                    THEN [Calling("classify", t, DefaultMaxRetries, DefaultRetryDelay)
                            EXCEPT !.pc = "parse", !.body = "text", !.entry = "fresh",
                                   !.how = "hit", !.client = "h1", !.predicts = 1,
                                   !.replies = 1, !.result = reply]
                    ELSE IdleFrame]

NextNorm == \E w \in Workers : ClassifyParse(w)

SpecNorm == InitNorm /\ [][NextNorm]_vars

(***************************************************************************)
(* Claims                                                                  *)
(***************************************************************************)
InGetClient(f) == f.pc \in {"gc_check", "gc_cached", "gc_expire", "gc_open",
                            "gc_probe", "gc_stamp", "gc_return", "gc_fail", "gc_raised"}

\* C1: every handle that get_client has returned to a handler has passed a
\* probe made on that same handle (in particular a handle whose probe failed
\* is never handed out as the cached handle).
C1_ReturnedHandleProbed ==
    \A w \in Workers :
        frame[w].how # "" =>
            /\ frame[w].client # None
            /\ probe[frame[w].client] = "passed"

\* C2: a get_client call that finds a handle stamped less than 300 seconds
\* ago returns that handle without opening a connection or probing, and
\* writes neither the slot nor the timestamp.
C2_FreshHitNoNetwork ==
    \A w \in Workers :
        frame[w].entry = "fresh" =>
            /\ frame[w].pc \notin {"gc_expire", "gc_open", "gc_probe", "gc_stamp",
                                   "gc_return", "gc_fail", "gc_raised"}
            /\ frame[w].opens = 0 /\ frame[w].probes = 0
            /\ ~frame[w].stamped /\ ~frame[w].assigned
            /\ _client # None /\ init_age # NoStamp
            /\ frame[w].how # "" => frame[w].how = "hit" /\ frame[w].client = _client

C2_Witness ==
    \E w \in Workers :
        /\ frame[w].entry = "fresh" /\ frame[w].how = "hit"
        /\ frame[w].pc = "predict" /\ frame[w].predicts = 0
        /\ init_age = 295

\* C3: a get_client call that finds a handle stamped 300 seconds ago or more
\* runs one Connect-and-Verify sequence of 1..max_retries attempts that ends
\* at the first probe that passes; when it returns, the slot holds the handle
\* that passed, stamped at that moment, so the slot is a cache hit for as long
\* as the window lasts.
C3_StaleReconnectsOnce ==
    \A w \in Workers :
        frame[w].entry = "stale" =>
            /\ frame[w].pc # "gc_cached" /\ frame[w].how # "hit"
            /\ frame[w].opens <= frame[w].max_retries
            /\ frame[w].probes <= frame[w].opens
            /\ frame[w].pc \in {"gc_stamp", "gc_return"} \/ frame[w].how = "miss" =>
                  /\ frame[w].opens >= 1
                  /\ Len(frame[w].waits) = frame[w].opens - 1
                  /\ frame[w].probes >= 1
                  /\ _client # None /\ probe[_client] = "passed"
            /\ frame[w].pc = "gc_return" => frame[w].stamped /\ init_age = 0
            /\ frame[w].how = "miss" =>
                  /\ frame[w].stamped /\ frame[w].client = _client
                  /\ init_age # NoStamp
                  /\ init_age < 300 => EntryKind = "fresh"

C3_Witness ==
    \E w \in Workers :
        /\ frame[w].entry = "stale" /\ frame[w].how = "miss"
        /\ frame[w].opens = 2 /\ frame[w].waits = <<10>>
        /\ init_age = 0

\* C4: a get_client call that misses the cache makes at most 3 attempts
\* (from /classify) or 5 (from /warmup); the wait after the k-th failed
\* attempt is 10*k (15*k for /warmup) seconds, for either kind of failure;
\* when the last attempt has failed the call raises and returns no handle.
C4_BoundedLinearBackoff ==
    \A w \in Workers :
        LET f == frame[w]
            n == IF f.handler = "warmup" THEN 5 ELSE 3
            d == IF f.handler = "warmup" THEN 15 ELSE 10
        IN  /\ f.opens <= n
            /\ Len(f.waits) <= n - 1
            /\ \A k \in 1..Len(f.waits) : f.waits[k] = d * k
            /\ f.pc = "gc_open" => Len(f.waits) = f.opens
            /\ f.pc \in {"gc_probe", "gc_fail"} => Len(f.waits) = f.opens - 1
            /\ f.pc = "gc_raised" =>
                  /\ f.opens = n /\ Len(f.waits) = n - 1
                  /\ f.how = "" /\ f.client = None
            /\ f.pc = "done" /\ f.opens > 0 /\ f.how = "" => f.response.status = 503

C4_Witness ==
    \E w \in Workers :
        /\ frame[w].pc = "gc_raised" /\ frame[w].handler = "warmup"
        /\ frame[w].waits = <<15, 30, 45, 60>>
        /\ frame[w].err = "json"

\* C5 as claimed: every /warmup request empties the slot and performs at
\* least one connection open followed by a probe; on status success the slot
\* holds the handle verified, and the timestamp written, by that request.
C5_WarmupOpensAndProbes ==
    \A w \in Workers :
        frame[w].handler = "warmup" /\ frame[w].pc = "done" =>
            /\ frame[w].assigned /\ frame[w].entry = "empty"
            /\ frame[w].opens >= 1 /\ frame[w].probes >= 1
            /\ frame[w].response.status = 200 =>
                  /\ frame[w].stamped /\ frame[w].client = _client
                  /\ _client # None /\ probe[_client] = "passed"

\* C5 amended: every /warmup request empties the slot and attempts at least
\* one connection open, each open that succeeds being followed by one probe;
\* on status success at least one probe was made and the slot holds the
\* handle verified, and the timestamp written, by that request.
C5_WarmupReconnects ==
    \A w \in Workers :
        frame[w].handler = "warmup" /\ frame[w].pc = "done" =>
            /\ frame[w].assigned /\ frame[w].entry = "empty" /\ frame[w].how # "hit"
            /\ frame[w].opens >= 1 /\ frame[w].probes = frame[w].opened
            /\ frame[w].response.status = 200 =>
                  /\ frame[w].probes >= 1
                  /\ frame[w].stamped /\ frame[w].client = _client
                  /\ _client # None /\ probe[_client] = "passed"
                  /\ init_age = 0

C5_Witness ==
    \E w \in Workers :
        /\ frame[w].handler = "warmup" /\ frame[w].pc = "done"
        /\ frame[w].before = "fresh"
        /\ frame[w].response.status = 200
        /\ frame[w].opens = 2

\* C6: a /classify request with a non-blank text whose get_client call
\* raised answers 503 with the /warmup suggestion and has made no predict
\* call for the text.
C6_UnavailableIs503 ==
    \A w \in Workers :
        frame[w].handler = "classify" /\ frame[w].text # <<>> =>
            /\ frame[w].pc = "gc_raised" => frame[w].predicts = 0
            /\ frame[w].pc = "done" /\ frame[w].how = "" =>
                  /\ frame[w].response.status = 503
                  /\ frame[w].response.suggestion
                  /\ frame[w].predicts = 0
                  /\ frame[w].opens = 3

C6_Witness ==
    \E w \in Workers :
        /\ frame[w].handler = "classify" /\ frame[w].pc = "done"
        /\ frame[w].response.status = 503
        /\ frame[w].opened = 3 /\ frame[w].probes = 3

\* C7: the predict loop of /classify makes at most 3 predict calls, all on
\* the handle get_client returned (no further open or probe), and waits
\* 5*k seconds after the k-th failed call.
C7_PredictLinearBackoff ==
    \A w \in Workers :
        frame[w].handler = "classify" =>
            /\ frame[w].predicts <= 3
            /\ Len(frame[w].pwaits) <= 2
            /\ \A k \in 1..Len(frame[w].pwaits) : frame[w].pwaits[k] = 5 * k
            /\ frame[w].predicts > 0 \/ frame[w].pwaits # <<>> =>
                  ~InGetClient(frame[w]) /\ frame[w].how # ""

\* C8: in /classify, once a predict call has returned a reply no further
\* predict call is made; a reply of unrecognised shape is answered 500 with
\* the raw payload; handling the reply writes neither slot nor timestamp.
C8_ReplyNotRetried ==
    /\ [](\A w \in Workers :
            frame[w].handler = "classify" =>
                /\ frame[w].replies <= 1
                /\ frame[w].replies = 1 => frame[w].pc \in {"parse", "done"}
                /\ frame[w].pc = "done" /\ frame[w].result.shape = "other" =>
                      /\ frame[w].response.status = 500
                      /\ frame[w].response.raw = frame[w].result)
    /\ [][\A w \in Workers :
            frame[w].handler = "classify" /\ frame[w].replies = 1
            /\ frame'[w].pc # "idle" =>
                /\ frame'[w].predicts = frame[w].predicts
                /\ _client' = _client /\ init_age' = init_age]_vars

C8_Witness ==
    \E w \in Workers :
        /\ frame[w].handler = "classify" /\ frame[w].pc = "done"
        /\ frame[w].result.shape = "other"
        /\ frame[w].response.status = 500
        /\ frame[w].pwaits = <<5>>

\* C9: every /classify request without a non-blank text (no JSON body, no
\* 'text' key, a text that is blank) is answered 400 without any upstream
\* call and without writing the slot or the timestamp.
C9_NoTextIs400 ==
    \A w \in Workers :
        /\ frame[w].handler = "classify" /\ frame[w].pc = "done"
        /\ \/ frame[w].body \in {"none", "nokey"}
           \/ frame[w].body = "text" /\ frame[w].text = <<>>
        => /\ frame[w].response.status = 400
           /\ frame[w].opens = 0 /\ frame[w].predicts = 0
           /\ ~frame[w].stamped /\ ~frame[w].assigned

\* C10 as claimed: for a reply the normalizer accepts, the label is spam iff
\* the normalized spam score exceeds the ham score, and the returned
\* confidence equals the larger of the two normalized scores.
C10_ConfidenceIsLargerScore ==
    \A w \in Workers :
        LET f == frame[w]
            p == Normalize(f.result)
        IN  f.handler = "classify" /\ f.pc = "done" /\ p.kind = "scores" =>
                /\ f.response.status = 200
                /\ f.response.label = "spam" <=> p.spam > p.ham
                /\ f.response.confidence = Max(p.spam, p.ham)

\* C10 amended: ... and the returned confidence equals the larger of the two
\* normalized scores rounded to 4 decimals, which is the larger of the two
\* returned probabilities.
C10_LabelAndRoundedConfidence ==
    \A w \in Workers :
        LET f == frame[w]
            p == Normalize(f.result)
            m == IF p.spam > p.ham THEN p.spam ELSE p.ham
        IN  f.handler = "classify" /\ f.pc = "done" /\ p.kind = "scores" =>
                /\ f.response.status = 200
                /\ f.response.label \in {"spam", "ham"}
                /\ f.response.label = "spam" <=> p.spam > p.ham
                /\ f.response.confidence - m \in -5..4
                /\ f.response.confidence % 10 = 0
                /\ f.response.confidence \in {f.response.spam, f.response.ham}
                /\ f.response.confidence >= f.response.spam
                /\ f.response.confidence >= f.response.ham

C10_Witness ==
    \E w \in Workers :
        /\ frame[w].handler = "classify" /\ frame[w].pc = "done"
        /\ frame[w].response.status = 200
        /\ Normalize(frame[w].result).spam = 50004
        /\ Normalize(frame[w].result).ham = 50004
        /\ frame[w].response.label = "ham"
        /\ frame[w].response.confidence = 50000

\* Encodings of a pair of class scores (spam s, ham h) in the accepted reply
\* shapes, the ham class being named hl: the list (or dict) of both classes
\* in either order, and the winning class alone when the scores sum to 1.
HamNames == {LHam, LNotSpamHam}

Encodes(r, s, h, hl) ==
    CASE r.shape \in {"confidences", "pair"} ->
            r.items \in {<<Item(LSpam, s), Item(hl, h)>>, <<Item(hl, h), Item(LSpam, s)>>}
      [] r.shape = "label" ->
            /\ s + h = One
            /\ \/ r.label = LSpam /\ r.confidence = s /\ s >= h
               \/ r.label = hl /\ r.confidence = h /\ h >= s
      [] OTHER -> FALSE

\* C11: for every pair of scores, every reply of an accepted shape that
\* encodes the pair gives the same probabilities as every other reply, of
\* any accepted shape, that encodes the same pair.
C11_ShapeInvariance ==
    \A w \in Workers :
        LET f == frame[w] IN
        f.handler = "classify" /\ f.pc = "done" =>
            \A s, h \in Scores, hl \in HamNames :
                Encodes(f.result, s, h, hl) =>
                    \A r2 \in AllReplies :
                        Encodes(r2, s, h, hl) =>
                            /\ ParseResponse(f.text, r2).spam = f.response.spam
                            /\ ParseResponse(f.text, r2).ham = f.response.ham

\* The same with the classes named 'Spam' and 'Ham' only.
C11_ShapeInvarianceShortNames ==
    \A w \in Workers :
        LET f == frame[w] IN
        f.handler = "classify" /\ f.pc = "done" =>
            \A s, h \in Scores :
                Encodes(f.result, s, h, LHam) =>
                    \A r2 \in AllReplies :
                        Encodes(r2, s, h, LHam) =>
                            /\ ParseResponse(f.text, r2).spam = f.response.spam
                            /\ ParseResponse(f.text, r2).ham = f.response.ham

\* The texts of a list that are non-blank after trimming, in order.
RECURSIVE NonBlank(_)
NonBlank(items) ==
    IF items = <<>> THEN <<>>
    ELSE IF Strip(Head(items).text) = <<>> THEN NonBlank(Tail(items))
    ELSE <<Head(items).text>> \o NonBlank(Tail(items))

AllStr(items) == \A i \in 1..Len(items) : items[i].str

\* C12: in /classify/batch with a list of strings and a connection acquired,
\* the results hold one entry per text that is non-blank after trimming, in
\* input order, and none for a blank text; a failed predict call gives an
\* error entry for its text and the loop goes on to the end of the list,
\* where the results are answered with status 200.
C12_BatchOneEntryPerText ==
    \A w \in Workers :
        LET f == frame[w] IN
        f.handler = "batch" /\ f.how # "" /\ AllStr(f.texts) =>
            /\ f.pc \in {"b_item", "done"}
            /\ [k \in 1..Len(f.results) |-> f.results[k].text]
                   = NonBlank(SubSeq(f.texts, 1, f.idx - 1))
            /\ Len(f.results) = f.predicts
            /\ Cardinality({k \in 1..Len(f.results) : f.results[k].error})
                   >= f.predicts - f.replies
            /\ f.pc = "done" =>
                  /\ f.idx = Len(f.texts) + 1
                  /\ f.response.status = 200
                  /\ f.response.results = f.results

C12_Witness ==
    \E w \in Workers :
        LET f == frame[w] IN
        /\ f.handler = "batch" /\ f.pc = "done" /\ f.response.status = 200
        /\ f.texts = <<StrItem(<<"a">>), StrItem(<<" ", "a">>)>>
        /\ f.predicts = 2 /\ f.replies = 1
        /\ Len(f.response.results) = 2
        /\ f.response.results[1].error /\ ~f.response.results[2].error

C12_WitnessBlank ==
    \E w \in Workers :
        LET f == frame[w] IN
        /\ f.handler = "batch" /\ f.pc = "done" /\ f.response.status = 200
        /\ f.texts = <<StrItem(<<" ">>), StrItem(<<"a">>)>>
        /\ Len(f.response.results) = 1

\* C13: a /classify/batch request whose 'texts' is a non-empty list gets a
\* batch-level failure (a response other than 200 with the results) only
\* when get_client raised.
C13_BatchFailsOnlyOnConnection ==
    \A w \in Workers :
        LET f == frame[w] IN
        f.handler = "batch" /\ f.body = "list" /\ f.texts # <<>> /\ f.pc = "done" =>
            \/ f.response.status = 200
            \/ f.how = "" /\ f.opens = DefaultMaxRetries /\ f.response.status = 503

\* C14: the entry /classify/batch makes for an item is what /classify
\* answers for the same text and the same upstream outcomes: for a reply it
\* is an error entry exactly when /classify answers that reply with an
\* error, and has the same label and confidence otherwise; for a failed
\* predict call it is an error entry only where /classify gives up too.
C14_BatchEntryAsClassify ==
    [][\A w \in Workers :
         LET f == frame[w]
             g == frame'[w]
         IN  f.handler = "batch" /\ f.pc = "b_item" /\ g.predicts = f.predicts + 1 =>
                LET e == g.results[Len(g.results)]
                    r == ParseResponse(Strip(f.texts[f.idx].text), g.result)
                IN  IF g.replies = f.replies + 1
                    THEN /\ e.error <=> r.status # 200
                         /\ ~e.error => e.label = r.label /\ e.confidence = r.confidence
                    ELSE e.error => ~MayRetry(0, max_predict_retries)]_vars

\* C15: handling GET /health or GET / writes neither the slot nor the
\* timestamp and makes no upstream call, in app.py and in testing_api.py,
\* whatever the state it is handled in.
C15_HealthHomeReadOnly ==
    /\ [](\A w \in Workers :
            frame[w].handler \in {"health", "home"} =>
                /\ frame[w].pc = "done" /\ frame[w].response.status = 200
                /\ frame[w].opens = 0 /\ frame[w].probes = 0 /\ frame[w].predicts = 0
                /\ ~frame[w].stamped /\ ~frame[w].assigned)
    /\ [][\A w \in Workers :
            frame'[w].handler \in {"health", "home"} /\ frame[w].pc = "idle" =>
                /\ _client' = _client /\ init_age' = init_age /\ probe' = probe]_vars

C15_Witness ==
    \E w \in Workers :
        /\ variant = "testing"
        /\ frame[w].handler = "health" /\ frame[w].pc = "done"
        /\ frame[w].response.info = "connected"
        /\ EntryKind = "stale"

\* C16: under every interleaving of workers in get_client and /warmup, a
\* handle that a get_client call took from the slot and returned has passed
\* its probe.
C16_NoUnprobedRead ==
    \A w \in Workers :
        frame[w].how # "" /\ frame[w].client # None =>
            probe[frame[w].client] = "passed"

\* C18: under every interleaving of get_client with /warmup, a get_client
\* call that returns normally returns a handle, not None.
C18_ReturnsAHandle ==
    \A w \in Workers : frame[w].how # "" => frame[w].client # None

\* C17: with the upstream answering every open and probe, every worker's
\* get_client call on an empty or stale slot returns, so none of them ends
\* by raising (a call makes at most max_retries attempts, so it ends one way
\* or the other), and once all have returned the slot holds a probed handle
\* stamped inside the freshness window.
C17_CallsReturnAndConverge ==
    /\ \A w \in Workers : frame[w].pc # "gc_raised"
    /\ (\A w \in Workers : frame[w].how # "") =>
          /\ _client # None /\ probe[_client] = "passed"
          /\ IsFresh(init_age)

\* C19: in a get_client call that misses the cache every attempt goes open,
\* then probe, then timestamp: an attempt opens a new connection; one probe
\* is made on it, and only if the open succeeded; the timestamp is written,
\* and the handle returned, only after that probe passed; a failed open or
\* probe is followed by the next attempt or by the raise, not by a return.
C19_OpenProbeStamp ==
    /\ [](\A w \in Workers :
            LET f == frame[w] IN
            f.entry \in {"empty", "stale"} =>
                /\ f.probes <= f.opened /\ f.opened <= f.opens
                /\ f.pc = "gc_open" => f.opens = f.attempt /\ f.probes = f.opened
                /\ f.pc = "gc_probe" =>
                      /\ f.opens = f.attempt + 1 /\ f.opened = f.probes + 1
                      /\ _client # None /\ probe[_client] = "new"
                /\ f.pc = "gc_stamp" =>
                      /\ f.probes = f.opened /\ ~f.stamped
                      /\ probe[_client] = "passed"
                /\ f.pc = "gc_return" =>
                      /\ f.stamped /\ init_age = 0 /\ probe[_client] = "passed"
                /\ f.pc \in {"gc_fail", "gc_raised"} =>
                      /\ f.how = "" /\ ~f.stamped /\ f.probes = f.opened
                      /\ f.opens = f.attempt + 1
                      /\ _client # None => probe[_client] = "failed"
                /\ f.how # "" =>
                      /\ f.how = "miss" /\ f.stamped
                      /\ f.client # None /\ probe[f.client] = "passed")
    /\ [][\A w \in Workers :
            LET f == frame[w]
                g == frame'[w]
            IN  f.entry \in {"empty", "stale"} /\ g.pc # f.pc =>
                    /\ g.pc = "gc_probe" => f.pc = "gc_open"
                    /\ g.pc = "gc_stamp" => f.pc = "gc_probe"
                    /\ g.pc = "gc_return" => f.pc = "gc_stamp"
                    /\ g.how = "miss" /\ f.how = "" => f.pc = "gc_return"
                    /\ f.pc = "gc_fail" => g.pc \in {"gc_open", "gc_raised"}]_vars

C19_Witness ==
    \E w \in Workers :
        /\ frame[w].entry = "stale" /\ frame[w].how = "miss"
        /\ frame[w].opens = 3 /\ frame[w].opened = 2 /\ frame[w].probes = 2
        /\ frame[w].waits = <<10, 20>>

\* C20: no retry loop waits after its last permitted attempt has failed: a
\* loop of n attempts has slept at most n - 1 times, in get_client (app.py,
\* testing_api.py), in the predict loop of /classify and in query_model.
C20_NoWaitAfterLastAttempt ==
    \A w \in Workers :
        LET f == frame[w] IN
        /\ f.max_retries > 0 => Len(f.waits) <= f.max_retries - 1
        /\ Len(f.pwaits) <= max_predict_retries - 1
        /\ f.pc = "gc_raised" => Len(f.waits) = f.opens - 1
        /\ f.pc = "done" /\ f.posts > 0 /\ f.response.status # 200 =>
              Len(f.waits) = f.posts - 1

\* C21: query_model sends at most max_retries (5) requests; every request
\* before the last one sent was answered 503 (and followed by its wait), so
\* a request is repeated only after a 503; the first 200 ends the loop with
\* its reply, which is what the handler parses; any other status ends the
\* call with an error, no further request being sent.
C21_QueryModelRetriesOn503 ==
    /\ [](\A w \in Workers :
            LET f == frame[w] IN
            variant = "backend" /\ f.handler = "classify" =>
                /\ f.posts <= QueryMaxRetries
                /\ f.posts - Len(f.waits) \in {0, 1}
                /\ f.replies <= 1
                /\ f.pc = "q_post" => f.posts = Len(f.waits) /\ f.replies = 0
                /\ f.replies = 1 =>
                      /\ f.pc \in {"q_parse", "done"}
                      /\ f.posts = Len(f.waits) + 1
                      /\ f.result \in BackendReplies
                      /\ f.pc = "done" =>
                            f.response = B_ParseResponse(f.text, f.result)
                /\ f.pc = "done" /\ f.posts > 0 /\ f.replies = 0 =>
                      f.response.status = 500)
    /\ [][\A w \in Workers :
            LET f == frame[w]
                g == frame'[w]
            IN  variant = "backend" /\ g.posts = f.posts + 1 =>
                    /\ f.pc = "q_post" /\ f.posts = Len(f.waits)
                    /\ g.replies = 0 /\ g.waits = f.waits => g.pc = "done"
                    /\ g.replies = 1 => g.pc = "q_parse" /\ g.waits = f.waits]_vars

C21_Witness ==
    \E w \in Workers :
        /\ variant = "backend" /\ frame[w].pc = "done"
        /\ frame[w].posts = 3 /\ frame[w].waits = <<10, 20>>
        /\ frame[w].replies = 0 /\ frame[w].response.status = 500

RECURSIVE SumSeq(_)
SumSeq(q) == IF q = <<>> THEN 0 ELSE Head(q) + SumSeq(Tail(q))

\* C22: a /classify request of app.py handled by one worker makes at most 3
\* connection opens, 3 probes and 3 predict calls for the text, waits at
\* most 10 + 20 + 5 + 10 = 45 seconds in backoff, and ends with a response,
\* whatever the upstream does.
C22_ClassifyTerminatesBounded ==
    /\ [](\A w \in Workers :
            LET f == frame[w] IN
            f.handler = "classify" =>
                /\ f.opens <= 3 /\ f.probes <= 3 /\ f.predicts <= 3
                /\ SumSeq(f.waits) + SumSeq(f.pwaits) <= 45
                /\ f.pc = "done" => f.response.status \in {200, 400, 500, 503})
    /\ \A w \in Workers :
          (frame[w].handler = "classify") ~> (frame[w].pc = "done")

C22_Witness ==
    \E w \in Workers :
        /\ frame[w].handler = "classify" /\ frame[w].pc = "done"
        /\ frame[w].opens = 3 /\ frame[w].probes = 3 /\ frame[w].predicts = 3
        /\ SumSeq(frame[w].waits) + SumSeq(frame[w].pwaits) = 45
        /\ frame[w].response.status = 500

====
